---- MODULE Spec2Model ----
(***************************************************************************)
(* A model of the todo service: the credential store (register, login,    *)
(* change password), the token service, the admin guard, the per-owner    *)
(* todo repository and the exception handlers that turn raised errors     *)
(* into the uniform error envelope.                                        *)
(*                                                                         *)
(* The database tables are the variables users and todos.  A request is   *)
(* one action, except register, whose three database statements (two      *)
(* SELECTs and the INSERT/COMMIT) are three steps, so that requests served *)
(* by different workers can interleave at the database.                    *)
(***************************************************************************)
EXTENDS Integers, Sequences, FiniteSets, TLC

VARIABLES
    users,      \* rows of the users table
    todos,      \* rows of the todos table
    inflight,   \* per worker slot: the register request it is serving
    held,       \* bearer tokens in the hands of clients
    now,        \* the clock, in minutes; every event falls on a whole minute
    resp        \* the last response sent

vars == <<users, todos, inflight, held, now, resp>>

----------------------------------------------------------------------------
(* Bounds of the model *)

MaxInflight == 2    \* worker slots serving register concurrently
MaxHeld == 2        \* tokens clients keep
MaxTime == 32       \* the clock stops here
MaxTodoId == 2      \* todo ids are drawn from 1..MaxTodoId

(* Program constants *)

ACCESS_TOKEN_EXPIRE_MINUTES == 30
TitleMinLen == 1
TitleMaxLen == 100
DescriptionMaxLen == 500
PriorityMin == 1
PriorityMax == 5
MinPasswordLen == 6

Slots == 1..MaxInflight

None == "<None>"

----------------------------------------------------------------------------
(* Text.  A message of the database engine is a sequence of atoms, so     *)
(* that Python's `in` is an infix test.                                   *)

UNIQUE_FAILED == "UNIQUE constraint failed: "
NOT_NULL_FAILED == "NOT NULL constraint failed: "

IsInfix(p, s) ==
    \E i \in 0..(Len(s) - Len(p)) : SubSeq(s, i + 1, i + Len(p)) = p

(* str(exc.orig): the text of an engine message, its atoms in a row. *)
RECURSIVE Str(_)
Str(orig) == IF orig = <<>> THEN "" ELSE Head(orig) \o Str(Tail(orig))

(* s.split(sep): the pieces of s between the occurrences of sep, found    *)
(* from the left.                                                          *)
RECURSIVE Split(_, _)
Split(s, sep) ==
    IF ~IsInfix(sep, s) THEN <<s>>
    ELSE LET i == CHOOSE k \in 0..(Len(s) - Len(sep)) :
                    /\ SubSeq(s, k + 1, k + Len(sep)) = sep
                    /\ \A j \in 0..(k - 1) : SubSeq(s, j + 1, j + Len(sep)) # sep
         IN  <<SubSeq(s, 1, i)>> \o Split(SubSeq(s, i + Len(sep) + 1, Len(s)), sep)

(* What a handler leaves behind when it raises instead of returning. *)
Raised(kind) == [raised |-> kind]

UniqueMsg(table, column) == <<UNIQUE_FAILED, table, ".", column>>

----------------------------------------------------------------------------
(* exceptions.py *)

CustomHTTPException(status_code, detail, error_code, context) ==
    [type |-> "CustomHTTPException", status_code |-> status_code,
     detail |-> detail, error_code |-> error_code, context |-> context]

EmailAlreadyExistsException(email) ==
    CustomHTTPException(409, "A user with this email already exists",
                        "EMAIL_ALREADY_EXISTS", {<<"email", email>>})

UsernameAlreadyExists_Generic(username) ==
    CustomHTTPException(409, "A user with this username already exists",
                        "USER_ALREADY_EXISTS",
                        {<<"field", "username">>, <<"value", username>>})

UsernameAlreadyExistsException(username) ==
    CustomHTTPException(409, "A user with this username already exists",
                        "USERNAME_ALREADY_EXISTS", {<<"username", username>>})

DatabaseOperationException(operation, detail) ==
    CustomHTTPException(500, detail, "DATABASE_OPERATION_FAILED",
                        {<<"operation", operation>>})

AuthenticationException(detail) ==
    CustomHTTPException(401, detail, "AUTHENTICATION_FAILED", {})

HTTPException(status_code, detail) ==
    [type |-> "HTTPException", status_code |-> status_code, detail |-> detail]

----------------------------------------------------------------------------
(* exception_handlers.py: each handler returns the JSON response, a       *)
(* record [status, content].                                               *)

JSONResponse(status_code, content) ==
    [status |-> status_code, content |-> content]

Envelope(message, error_code, status_code) ==
    [error |-> TRUE, message |-> message, error_code |-> error_code,
     status_code |-> status_code]

custom_http_exception_handler(exc) ==
    LET response_content ==
            Envelope(exc.detail, exc.error_code, exc.status_code)
    IN  JSONResponse(exc.status_code,
            IF exc.context # {}
            THEN response_content @@ [context |-> exc.context]
            ELSE response_content)

(* The NOT NULL branch splits what follows the last marker at ".".      *)
NotNullPieces(error_message) ==
    LET after == Split(error_message, NOT_NULL_FAILED)
    IN  Split(after[Len(after)], ".")

integrity_error_handler(orig) ==
    LET error_message == Str(orig) IN
    IF IsInfix("UNIQUE constraint failed: users.username", error_message)
    THEN JSONResponse(409, Envelope("A user with this username already exists",
                                    "USERNAME_ALREADY_EXISTS", 409))
    ELSE IF IsInfix("UNIQUE constraint failed: users.email", error_message)
    THEN JSONResponse(409, Envelope("A user with this email already exists",
                                    "EMAIL_ALREADY_EXISTS", 409))
    ELSE IF IsInfix("UNIQUE constraint failed", error_message)
    THEN JSONResponse(409, Envelope("A record with these details already exists",
                                    "DUPLICATE_RECORD", 409))
    ELSE IF IsInfix("NOT NULL constraint failed", error_message)
    THEN (* field_name is pieces[1] when the message holds a "." anywhere, *)
         (* else "unknown"; indexing past the pieces raises IndexError.    *)
         IF IsInfix(".", error_message) /\ Len(NotNullPieces(error_message)) < 2
         THEN Raised("IndexError")
         ELSE LET field_name == IF IsInfix(".", error_message)
                                THEN NotNullPieces(error_message)[2]
                                ELSE "unknown"
              IN  JSONResponse(422,
                      Envelope("Field '" \o field_name
                                   \o "' is required and cannot be null",
                               "REQUIRED_FIELD_MISSING", 422)
                      @@ [context |-> {<<"field", field_name>>}])
    ELSE JSONResponse(400, Envelope("Database constraint violation",
                                    "CONSTRAINT_VIOLATION", 400)
                           @@ [details |-> error_message])

http_exception_handler(exc) ==
    JSONResponse(exc.status_code,
                 Envelope(exc.detail, "HTTP_EXCEPTION", exc.status_code))

general_exception_handler ==
    JSONResponse(500, Envelope("An unexpected error occurred",
                               "INTERNAL_SERVER_ERROR", 500))

(* The handler the framework picks for a raised exception: the one        *)
(* registered for the nearest class of the exception.                      *)
HandleException(exc) ==
    IF exc.type = "CustomHTTPException"
    THEN custom_http_exception_handler(exc)
    ELSE http_exception_handler(exc)

----------------------------------------------------------------------------
(* Password hashing: a hash records the password it was made from and the *)
(* salt drawn for it; verify compares the password.                        *)

Salts == {"s1", "s2"}

bcrypt_hash(password, salt) == [pw |-> password, salt |-> salt]

bcrypt_verify(password, hashed_password) == hashed_password.pw = password

----------------------------------------------------------------------------
(* The users table *)

Usernames == {"u1", "u2"}
Emails == {"e1", "e2"}

NoReq == [username |-> "", email |-> "", password |-> "", role |-> ""]
Idle == [stage |-> "idle", req |-> NoReq]

UserByUsername(username) == {u \in users : u.username = username}
UserByEmail(email) == {u \in users : u.email = email}
UserById(id) == {u \in users : u.id = id}

(* The id the engine generates for a new users row. *)
NextUserId ==
    IF users = {} THEN 1
    ELSE (CHOOSE m \in {u.id : u \in users} :
              \A u \in users : u.id <= m) + 1

(* The uniqueness constraints of the users table: the messages of the     *)
(* constraints an insert of (username, email) violates.                    *)
UniqueViolationsUsernameOnly(username, email) ==
    IF UserByUsername(username) # {}
    THEN {UniqueMsg("users", "username")} ELSE {}

UniqueViolations(username, email) ==
    (IF UserByUsername(username) # {}
     THEN {UniqueMsg("users", "username")} ELSE {})
    \cup
    (IF UserByEmail(email) # {}
     THEN {UniqueMsg("users", "email")} ELSE {})

NoResp == [op |-> "none", status |-> 0]

Respond(op, r, extra) ==
    [op |-> op, status |-> r.status, content |-> r.content] @@ extra

----------------------------------------------------------------------------
(* POST /auth/register *)

(* First statement: the username lookup. *)
RegisterCheckUsername(s, req) ==
    /\ inflight[s] = Idle
    /\ IF UserByUsername(req.username) # {}
       THEN /\ resp' = Respond("register",
                   HandleException(UsernameAlreadyExistsException(req.username)),
                   [slot |-> s, req |-> req, cause |-> <<>>])
            /\ UNCHANGED inflight
       ELSE /\ inflight' = [inflight EXCEPT ![s] = [stage |-> "email", req |-> req]]
            /\ UNCHANGED resp
    /\ UNCHANGED <<users, todos, held, now>>

(* Second statement: the email lookup. *)
RegisterCheckEmail(s) ==
    /\ inflight[s].stage = "email"
    /\ LET req == inflight[s].req IN
       IF UserByEmail(req.email) # {}
       THEN /\ resp' = Respond("register",
                   HandleException(EmailAlreadyExistsException(req.email)),
                   [slot |-> s, req |-> req, cause |-> <<>>])
            /\ inflight' = [inflight EXCEPT ![s] = Idle]
       ELSE /\ inflight' = [inflight EXCEPT ![s] = [stage |-> "commit", req |-> req]]
            /\ UNCHANGED resp
    /\ UNCHANGED <<users, todos, held, now>>

NewUser(req, salt) ==
    [id |-> NextUserId, username |-> req.username, email |-> req.email,
     hashed_password |-> bcrypt_hash(req.password, salt),
     role |-> req.role, is_active |-> TRUE]

DbFailures == {<<"database is locked">>}

(* Third statement: add, commit, refresh, inside the try block.  failure  *)
(* is <<>> when the engine is healthy, otherwise the text of the error it *)
(* raises.                                                                 *)
RegisterCommit(s, salt, failure) ==
    /\ inflight[s].stage = "commit"
    /\ LET req == inflight[s].req
           row == NewUser(req, salt)
           violated == UniqueViolations(row.username, row.email)
       IN  IF violated # {}
           THEN \E msg \in violated :
                /\ resp' = Respond("register",
                       HandleException(DatabaseOperationException("create_user",
                           "Failed to create user due to database constraint violation")),
                       [slot |-> s, req |-> req, cause |-> msg])
                /\ UNCHANGED users
           ELSE IF failure # <<>>
           THEN /\ resp' = Respond("register",
                       HandleException(DatabaseOperationException("create_user",
                           "Unexpected error while creating user: " \o failure[1])),
                       [slot |-> s, req |-> req, cause |-> failure])
                /\ UNCHANGED users
           ELSE /\ users' = users \cup {row}
                /\ resp' = Respond("register",
                       JSONResponse(200,
                           [id |-> row.id, username |-> row.username,
                            email |-> row.email, role |-> row.role,
                            is_active |-> row.is_active,
                            message |-> "User created successfully"]),
                       [slot |-> s, req |-> req, cause |-> <<>>])
    /\ inflight' = [inflight EXCEPT ![s] = Idle]
    /\ UNCHANGED <<todos, held, now>>

RegRequests ==
    [username : Usernames, email : Emails, password : {"secret1"}, role : {"user"}]

InitReg ==
    /\ users = {}
    /\ todos = {}
    /\ inflight = [s \in Slots |-> Idle]
    /\ held = {}
    /\ now = 0
    /\ resp = NoResp

NextReg ==
    \/ \E s \in Slots, req \in RegRequests : RegisterCheckUsername(s, req)
    \/ \E s \in Slots : RegisterCheckEmail(s)
    \/ \E s \in Slots, failure \in {<<>>} \cup DbFailures :
            RegisterCommit(s, "s1", failure)

SpecReg == InitReg /\ [][NextReg]_vars

AllIdle == \A s \in Slots : inflight[s] = Idle
OnlyActive(s) == \A t \in Slots \ {s} : inflight[t] = Idle

(* C1: in every reachable state, under any interleaving of register       *)
(* requests, no two stored users share a username and no two share an     *)
(* email.                                                                  *)
C1_UniqueUsernameEmail ==
    \A u, v \in users :
        u # v => u.username # v.username /\ u.email # v.email

(* Two users are stored and the last insert, of a request that had passed *)
(* both lookups, was refused by a uniqueness constraint.                   *)
C1_Witness ==
    /\ Cardinality(users) = 2
    /\ resp.op = "register"
    /\ resp.cause \in {UniqueMsg("users", "username"), UniqueMsg("users", "email")}

(* C2: a register request served with no other request in flight fails    *)
(* with 409 USERNAME_ALREADY_EXISTS when its username is taken, and with   *)
(* 409 EMAIL_ALREADY_EXISTS when its username is free and its email is     *)
(* taken; the users table is unchanged in both cases.                      *)
C2_SequentialDuplicate ==
    [][\A s \in Slots :
        /\ \A req \in RegRequests :
              (OnlyActive(s) /\ RegisterCheckUsername(s, req)) =>
                 IF UserByUsername(req.username) # {}
                 THEN /\ resp'.op = "register" /\ resp'.req = req
                      /\ resp'.status = 409
                      /\ resp'.content.error_code = "USERNAME_ALREADY_EXISTS"
                      /\ resp'.content.status_code = 409
                      /\ users' = users
                      /\ inflight'[s] = Idle
                 ELSE /\ inflight'[s] = [stage |-> "email", req |-> req]
                      /\ users' = users /\ resp' = resp
        /\ (OnlyActive(s) /\ RegisterCheckEmail(s)
                /\ UserByEmail(inflight[s].req.email) # {}) =>
                 /\ resp'.op = "register" /\ resp'.req = inflight[s].req
                 /\ resp'.status = 409
                 /\ resp'.content.error_code = "EMAIL_ALREADY_EXISTS"
                 /\ resp'.content.status_code = 409
                 /\ users' = users
                 /\ inflight'[s] = Idle
      ]_vars

(* With no request in flight, the last response refused a request whose   *)
(* username was free and whose email a stored user holds.                  *)
C2_Witness ==
    /\ AllIdle
    /\ resp.op = "register" /\ resp.status = 409
    /\ resp.content.error_code = "EMAIL_ALREADY_EXISTS"
    /\ UserByUsername(resp.req.username) = {}
    /\ UserByEmail(resp.req.email) # {}

(* C3: a register request that passed both lookups and whose insert       *)
(* violates a uniqueness constraint is answered as integrity_error_handler *)
(* answers that violation (409 USERNAME_ALREADY_EXISTS or                  *)
(* EMAIL_ALREADY_EXISTS), and its user is not stored.                      *)
C3_RaceAnsweredByErrorMapper ==
    (resp.op = "register" /\ resp.cause \in
        {UniqueMsg("users", "username"), UniqueMsg("users", "email")}) =>
        /\ resp.status = integrity_error_handler(resp.cause).status
        /\ resp.content = integrity_error_handler(resp.cause).content
        /\ resp.status = 409
        /\ Cardinality(UserByUsername(resp.req.username)
                         \cup UserByEmail(resp.req.email)) >= 1

----------------------------------------------------------------------------
(* Token service.  A token is its payload and the signature over it; a    *)
(* token whose payload was altered keeps the signature of the original.    *)

Sign(payload) == [payload |-> payload, sig |-> payload]

(* expires_delta is NoDelta (None) or <<d>>, a timedelta of d minutes;    *)
(* `if expires_delta:` is false for None and for a zero timedelta.         *)
NoDelta == <<>>

create_access_token(data, expires_delta, t) ==
    Sign([sub |-> data.sub, user_id |-> data.user_id,
          exp |-> IF expires_delta # NoDelta /\ expires_delta[1] # 0
                  THEN t + expires_delta[1]
                  ELSE t + ACCESS_TOKEN_EXPIRE_MINUTES])

jwt_decode_StrictExpiry(token, t) ==
    IF token.sig # token.payload THEN [ok |-> FALSE, payload |-> token.payload]
    ELSE IF token.payload.exp <= t THEN [ok |-> FALSE, payload |-> token.payload]
    ELSE [ok |-> TRUE, payload |-> token.payload]

(* jwt.decode of python-jose: JWTError for a bad signature, and           *)
(* ExpiredSignatureError (a JWTError) when exp < now.                      *)
jwt_decode(token, t) ==
    IF token.sig # token.payload THEN [ok |-> FALSE, payload |-> token.payload]
    ELSE IF token.payload.exp < t THEN [ok |-> FALSE, payload |-> token.payload]
    ELSE [ok |-> TRUE, payload |-> token.payload]

NoPrincipal == [username |-> None, id |-> 0]

(* The dependency of every authenticated route: the principal, or the     *)
(* HTTPException it raises.                                                *)
get_current_user(token, t) ==
    LET d == jwt_decode(token, t) IN
    IF ~d.ok
    THEN [ok |-> FALSE, user |-> NoPrincipal,
          exc |-> HTTPException(401, "Could not validate user")]
    ELSE IF d.payload.sub = None \/ d.payload.user_id = 0
    THEN [ok |-> FALSE, user |-> NoPrincipal,
          exc |-> HTTPException(401, "Could not validate user")]
    ELSE [ok |-> TRUE,
          user |-> [username |-> d.payload.sub, id |-> d.payload.user_id],
          exc |-> HTTPException(401, "Could not validate user")]

(* A client keeps a token it was given while it has room for it. *)
Keep(token) == IF Cardinality(held) < MaxHeld THEN held \cup {token} ELSE held

(* The framework's answer to a body that fails the request model. *)
ValidationErrorResponse(fields) == JSONResponse(422, [detail |-> fields])

----------------------------------------------------------------------------
(* POST /auth/token *)

get_token_ActiveCheckedFirst(username, password) ==
    LET found == UserByUsername(username) IN
    IF found = {}
    THEN HandleException(AuthenticationException("Invalid username or password"))
    ELSE LET user == CHOOSE u \in found : TRUE IN
         IF ~user.is_active
         THEN HandleException(AuthenticationException("Account is disabled"))
         ELSE IF ~bcrypt_verify(password, user.hashed_password)
         THEN HandleException(AuthenticationException("Invalid username or password"))
         ELSE JSONResponse(200,
                [access_token |-> create_access_token(
                     [sub |-> user.username, user_id |-> user.id], NoDelta, now),
                 token_type |-> "bearer"])

get_token_NoActiveCheck(username, password) ==
    LET found == UserByUsername(username) IN
    IF found = {}
    THEN HandleException(AuthenticationException("Invalid username or password"))
    ELSE LET user == CHOOSE u \in found : TRUE IN
         IF ~bcrypt_verify(password, user.hashed_password)
         THEN HandleException(AuthenticationException("Invalid username or password"))
         ELSE JSONResponse(200,
                [access_token |-> create_access_token(
                     [sub |-> user.username, user_id |-> user.id], NoDelta, now),
                 token_type |-> "bearer"])

(* The response of the handler in the current state. *)
get_token(username, password) ==
    LET found == UserByUsername(username) IN
    IF found = {}
    THEN HandleException(AuthenticationException("Invalid username or password"))
    ELSE LET user == CHOOSE u \in found : TRUE IN
         IF ~bcrypt_verify(password, user.hashed_password)
         THEN HandleException(AuthenticationException("Invalid username or password"))
         ELSE IF ~user.is_active
         THEN HandleException(AuthenticationException("Account is disabled"))
         ELSE JSONResponse(200,
                [access_token |-> create_access_token(
                     [sub |-> user.username, user_id |-> user.id], NoDelta, now),
                 token_type |-> "bearer"])

Login(username, password) ==
    LET r == get_token(username, password) IN
    /\ resp' = Respond("login", r,
                       [req |-> [username |-> username, password |-> password]])
    /\ held' = IF r.status = 200 THEN Keep(r.content.access_token) ELSE held
    /\ UNCHANGED <<users, todos, inflight, now>>

----------------------------------------------------------------------------
(* PUT /admin/user/change-password *)

ChangePasswordInvalidFields(current_password, new_password) ==
    (IF Len(current_password) < MinPasswordLen THEN {"current_password"} ELSE {})
    \cup
    (IF Len(new_password) < MinPasswordLen THEN {"new_password"} ELSE {})

SetPassword_EveryUser(db_user, hashed) ==
    {[u EXCEPT !.hashed_password = hashed] : u \in users}

(* The users table after the commit of db_user's new hash. *)
SetPassword(db_user, hashed) ==
    (users \ {db_user}) \cup {[db_user EXCEPT !.hashed_password = hashed]}

ChangePassword(token, current_password, new_password, salt) ==
    LET cu == get_current_user(token, now)
        invalid == ChangePasswordInvalidFields(current_password, new_password)
        found == UserById(cu.user.id)
        extra == [token |-> token,
                  req |-> [current_password |-> current_password,
                           new_password |-> new_password]]
    IN
    /\ IF ~cu.ok
       THEN /\ resp' = Respond("change_password", HandleException(cu.exc), extra)
            /\ UNCHANGED users
       ELSE IF invalid # {}
       THEN /\ resp' = Respond("change_password",
                               ValidationErrorResponse(invalid), extra)
            /\ UNCHANGED users
       ELSE IF found = {}
       THEN /\ resp' = Respond("change_password",
                   HandleException(HTTPException(404, "User not found")), extra)
            /\ UNCHANGED users
       ELSE LET db_user == CHOOSE u \in found : TRUE IN
            IF ~bcrypt_verify(current_password, db_user.hashed_password)
            THEN /\ resp' = Respond("change_password",
                        HandleException(HTTPException(400,
                            "Current password is incorrect")), extra)
                 /\ UNCHANGED users
            ELSE /\ users' = SetPassword(db_user, bcrypt_hash(new_password, salt))
                 /\ resp' = Respond("change_password",
                        JSONResponse(200,
                            [message |-> "Password changed successfully"]), extra)
    /\ UNCHANGED <<todos, inflight, held, now>>

----------------------------------------------------------------------------
(* Rows changed outside the handlers.  No handler clears is_active or     *)
(* deletes a user; an operator does, directly in the database.             *)

DeactivateUser(id) ==
    /\ \E u \in UserById(id) :
          /\ u.is_active
          /\ users' = (users \ {u}) \cup {[u EXCEPT !.is_active = FALSE]}
    /\ UNCHANGED <<todos, inflight, held, now, resp>>

DeleteUserRow(id) ==
    /\ \E u \in UserById(id) : users' = users \ {u}
    /\ UNCHANGED <<todos, inflight, held, now, resp>>

----------------------------------------------------------------------------
(* Registration, login and password change, one request at a time *)

LoginRegRequests ==
    {[username |-> "u1", email |-> "e1", password |-> "secret1", role |-> "user"],
     [username |-> "u2", email |-> "e2", password |-> "abc", role |-> "user"]}

LoginPasswords == {"secret1", "secret2", "abc"}
NewPasswords == {"secret2", "abc"}

UserIds == 1..2

NextLogin ==
    \/ \E req \in LoginRegRequests : RegisterCheckUsername(1, req)
    \/ RegisterCheckEmail(1)
    \/ RegisterCommit(1, "s1", <<>>)
    \/ \E un \in Usernames, pw \in LoginPasswords : Login(un, pw)
    \/ \E tok \in held, cur \in LoginPasswords, new \in NewPasswords, salt \in Salts :
            ChangePassword(tok, cur, new, salt)
    \/ \E id \in UserIds : DeactivateUser(id)

SpecLogin == InitReg /\ [][NextLogin]_vars

(* The message login gives for invalid credentials: the one an unknown    *)
(* username receives.                                                      *)
InvalidCredentialsMessage == get_token("<nobody>", "secret1").content.message

CanLogin(username, password) ==
    \E u \in users : /\ u.username = username
                     /\ bcrypt_verify(password, u.hashed_password)
                     /\ u.is_active

(* C6: login returns a bearer token if and only if a user with the        *)
(* submitted username exists, the password verifies against its hash and  *)
(* the user is active; the token is validly signed and carries that        *)
(* user's username and id; in every other case the answer is 401 and no    *)
(* token is issued.                                                        *)
C6_LoginIff ==
    [][\A un \in Usernames, pw \in LoginPasswords :
        Login(un, pw) =>
            IF CanLogin(un, pw)
            THEN /\ resp'.status = 200
                 /\ resp'.content.token_type = "bearer"
                 /\ jwt_decode(resp'.content.access_token, now).ok
                 /\ \E u \in users :
                       /\ u.username = un
                       /\ resp'.content.access_token.payload.sub = u.username
                       /\ resp'.content.access_token.payload.user_id = u.id
            ELSE /\ resp'.status = 401
                 /\ resp'.content.status_code = 401
                 /\ "access_token" \notin DOMAIN resp'.content
                 /\ held' = held
      ]_vars

(* A token was returned for one user while another, deactivated, user is  *)
(* stored.                                                                 *)
C6_Witness ==
    /\ resp.op = "login" /\ resp.status = 200
    /\ resp.content.access_token.payload.sub = resp.req.username
    /\ \E u \in users : ~u.is_active

(* C7 as stated: every login attempt for a deactivated user fails, with a *)
(* message different from the one for invalid credentials.                 *)
C7_DisabledAlwaysDistinct ==
    [][\A un \in Usernames, pw \in LoginPasswords :
        (Login(un, pw) /\ \E u \in UserByUsername(un) : ~u.is_active) =>
            /\ resp'.status = 401
            /\ resp'.content.message # InvalidCredentialsMessage
      ]_vars

(* C7 amended: every login attempt for a deactivated user fails with 401  *)
(* and no token; its message differs from the invalid-credentials message  *)
(* exactly when the submitted password verifies (it is then "Account is    *)
(* disabled"); with a wrong password it is the invalid-credentials message.*)
C7_DisabledDistinctWhenPasswordVerifies ==
    [][\A un \in Usernames, pw \in LoginPasswords :
        \A u \in UserByUsername(un) :
            (Login(un, pw) /\ ~u.is_active) =>
                /\ resp'.status = 401
                /\ "access_token" \notin DOMAIN resp'.content
                /\ held' = held
                /\ IF bcrypt_verify(pw, u.hashed_password)
                   THEN /\ resp'.content.message = "Account is disabled"
                        /\ resp'.content.message # InvalidCredentialsMessage
                   ELSE resp'.content.message = InvalidCredentialsMessage
      ]_vars

(* A deactivated user submitted the right password and was refused. *)
C7_Witness ==
    /\ resp.op = "login" /\ resp.status = 401
    /\ resp.content.message = "Account is disabled"
    /\ \E u \in UserByUsername(resp.req.username) :
          ~u.is_active /\ bcrypt_verify(resp.req.password, u.hashed_password)

(* The outcome of a change-password request of an authenticated user whose *)
(* row is u.  With amended false this is the statement as given; with      *)
(* amended true it is restricted to requests that pass validation, and the *)
(* later login with the new password is required of an active user only.   *)
ChangePasswordOutcome(tok, cur, new, amended) ==
    LET cu == get_current_user(tok, now) IN
    \A u \in UserById(cu.user.id) :
        (cu.ok /\ (amended => ChangePasswordInvalidFields(cur, new) = {})) =>
            IF ~bcrypt_verify(cur, u.hashed_password)
            THEN /\ resp'.status = 400
                 /\ resp'.content.status_code = 400
                 /\ users' = users
            ELSE /\ resp'.status = 200
                 /\ \E h \in {bcrypt_hash(new, salt) : salt \in Salts} :
                       users' = (users \ {u}) \cup {[u EXCEPT !.hashed_password = h]}
                 /\ (amended => u.is_active) =>
                       get_token(u.username, new)'.status = 200
                 /\ new # cur => get_token(u.username, cur)'.status = 401

(* C9 as stated: for the authenticated user, change-password fails with   *)
(* 400 and leaves the hash unchanged when the current password does not    *)
(* verify; otherwise it replaces the hash, a later login succeeds with the *)
(* new password and fails with the old one, and no other user's record is  *)
(* modified.                                                               *)
C9_ChangePasswordAsStated ==
    [][\A tok \in held, cur \in LoginPasswords, new \in NewPasswords, salt \in Salts :
        ChangePassword(tok, cur, new, salt) =>
            ChangePasswordOutcome(tok, cur, new, FALSE)
      ]_vars

(* C9 amended: for a request whose current_password and new_password each *)
(* have at least 6 characters (any other is answered 422 and changes       *)
(* nothing), change-password fails with 400 and leaves the hash unchanged  *)
(* when the current password does not verify; otherwise it replaces the    *)
(* hash of that user only, a later login fails with the old password (when *)
(* they differ) and, when the user is active, succeeds with the new one.   *)
C9_ChangePassword ==
    [][\A tok \in held, cur \in LoginPasswords, new \in NewPasswords, salt \in Salts :
        ChangePassword(tok, cur, new, salt) =>
            /\ ChangePasswordOutcome(tok, cur, new, TRUE)
            /\ (get_current_user(tok, now).ok
                  /\ ChangePasswordInvalidFields(cur, new) # {}) =>
                    resp'.status = 422 /\ users' = users
      ]_vars

(* A password was changed while two users are stored: the new password    *)
(* logs in, and the other user's row is as registered.                     *)
C9_Witness ==
    /\ resp.op = "change_password" /\ resp.status = 200
    /\ Cardinality(users) = 2
    /\ \E u \in UserById(resp.token.payload.user_id) :
          /\ bcrypt_verify(resp.req.new_password, u.hashed_password)
          /\ ~bcrypt_verify(resp.req.current_password, u.hashed_password)
          /\ get_token(u.username, resp.req.new_password).status = 200

----------------------------------------------------------------------------
(* The todos table and the /todos routes.  Every route first resolves the *)
(* principal (401), then the framework validates path and body (422),     *)
(* then the handler runs.                                                  *)

TodoFields(t) ==
    [title |-> t.title, description |-> t.description,
     priority |-> t.priority, completed |-> t.completed]

(* TodoRequest: the names of the fields that fail their constraints. *)
TodoRequestInvalidFields(req) ==
    (IF Len(req.title) < TitleMinLen \/ Len(req.title) > TitleMaxLen
     THEN {"title"} ELSE {})
    \cup
    (IF req.description # None /\ Len(req.description) > DescriptionMaxLen
     THEN {"description"} ELSE {})
    \cup
    (IF req.priority < PriorityMin \/ req.priority > PriorityMax
     THEN {"priority"} ELSE {})

(* todo_id: int = Path(gt=0) *)
TodoIdInvalidFields(todo_id) == IF todo_id > 0 THEN {} ELSE {"todo_id"}

OwnedTodo_AnyOwner(todo_id, owner_id) == {t \in todos : t.id = todo_id}

(* filter(TodoItem.id == todo_id, TodoItem.owner_id == user.get("id")) *)
OwnedTodo(todo_id, owner_id) ==
    {t \in todos : t.id = todo_id /\ t.owner_id = owner_id}

(* filter(TodoItem.owner_id == user.get("id")).all() *)
TodosOf(owner_id) == {t \in todos : t.owner_id = owner_id}

NoContent == [error |-> FALSE]

TodoNotFound == HandleException(HTTPException(404, "Todo item not found"))

(* GET /todos/ *)
read_all(token) ==
    LET cu == get_current_user(token, now) IN
    IF ~cu.ok THEN HandleException(cu.exc)
    ELSE JSONResponse(200, [items |-> TodosOf(cu.user.id)])

ReadAll(token) ==
    /\ resp' = Respond("read_all", read_all(token),
                       [caller |-> get_current_user(token, now).user.id])
    /\ UNCHANGED <<users, todos, inflight, held, now>>

(* GET /todos/{todo_id} *)
read_todo(token, todo_id) ==
    LET cu == get_current_user(token, now)
        found == OwnedTodo(todo_id, cu.user.id)
    IN  IF ~cu.ok THEN HandleException(cu.exc)
        ELSE IF TodoIdInvalidFields(todo_id) # {}
        THEN ValidationErrorResponse(TodoIdInvalidFields(todo_id))
        ELSE IF found = {} THEN TodoNotFound
        ELSE JSONResponse(200, CHOOSE t \in found : TRUE)

ReadTodo(token, todo_id) ==
    /\ resp' = Respond("read_todo", read_todo(token, todo_id),
                       [caller |-> get_current_user(token, now).user.id,
                        todo_id |-> todo_id])
    /\ UNCHANGED <<users, todos, inflight, held, now>>

NewTodo_CompletedDropped(req, id, owner_id) ==
    [id |-> id, title |-> req.title, description |-> req.description,
     priority |-> req.priority, completed |-> FALSE, owner_id |-> owner_id]

(* The TodoItem row built from the request fields and the principal id. *)
NewTodo(req, id, owner_id) ==
    [id |-> id, title |-> req.title, description |-> req.description,
     priority |-> req.priority, completed |-> req.completed,
     owner_id |-> owner_id]

(* POST /todos/ ; id is the id the engine generates for the new row. *)
CreateTodo(token, req, id) ==
    LET cu == get_current_user(token, now)
        extra == [caller |-> cu.user.id, todo_id |-> id, req |-> req]
    IN
    /\ id \notin {t.id : t \in todos}
    /\ IF ~cu.ok
       THEN /\ resp' = Respond("create_todo", HandleException(cu.exc), extra)
            /\ UNCHANGED todos
       ELSE IF TodoRequestInvalidFields(req) # {}
       THEN /\ resp' = Respond("create_todo",
                   ValidationErrorResponse(TodoRequestInvalidFields(req)), extra)
            /\ UNCHANGED todos
       ELSE /\ todos' = todos \cup {NewTodo(req, id, cu.user.id)}
            /\ resp' = Respond("create_todo",
                   JSONResponse(201, NewTodo(req, id, cu.user.id)), extra)
    /\ UNCHANGED <<users, inflight, held, now>>

UpdatedTodo_OwnerCleared(todo, req) ==
    [todo EXCEPT !.title = req.title, !.description = req.description,
                 !.priority = req.priority, !.completed = req.completed,
                 !.owner_id = 0]

(* Every field of the request is set on the row. *)
UpdatedTodo(todo, req) ==
    [todo EXCEPT !.title = req.title, !.description = req.description,
                 !.priority = req.priority, !.completed = req.completed]

(* PUT /todos/{todo_id} *)
UpdateTodo(token, todo_id, req) ==
    LET cu == get_current_user(token, now)
        invalid == TodoIdInvalidFields(todo_id) \cup TodoRequestInvalidFields(req)
        found == OwnedTodo(todo_id, cu.user.id)
        extra == [caller |-> cu.user.id, todo_id |-> todo_id, req |-> req]
    IN
    /\ IF ~cu.ok
       THEN /\ resp' = Respond("update_todo", HandleException(cu.exc), extra)
            /\ UNCHANGED todos
       ELSE IF invalid # {}
       THEN /\ resp' = Respond("update_todo",
                               ValidationErrorResponse(invalid), extra)
            /\ UNCHANGED todos
       ELSE IF found = {}
       THEN /\ resp' = Respond("update_todo", TodoNotFound, extra)
            /\ UNCHANGED todos
       ELSE LET todo == CHOOSE t \in found : TRUE IN
            /\ todos' = (todos \ {todo}) \cup {UpdatedTodo(todo, req)}
            /\ resp' = Respond("update_todo",
                   JSONResponse(200, UpdatedTodo(todo, req)), extra)
    /\ UNCHANGED <<users, inflight, held, now>>

(* DELETE /todos/{todo_id} *)
DeleteTodo(token, todo_id) ==
    LET cu == get_current_user(token, now)
        found == OwnedTodo(todo_id, cu.user.id)
        extra == [caller |-> cu.user.id, todo_id |-> todo_id]
    IN
    /\ IF ~cu.ok
       THEN /\ resp' = Respond("delete_todo", HandleException(cu.exc), extra)
            /\ UNCHANGED todos
       ELSE IF TodoIdInvalidFields(todo_id) # {}
       THEN /\ resp' = Respond("delete_todo",
                   ValidationErrorResponse(TodoIdInvalidFields(todo_id)), extra)
            /\ UNCHANGED todos
       ELSE IF found = {}
       THEN /\ resp' = Respond("delete_todo", TodoNotFound, extra)
            /\ UNCHANGED todos
       ELSE /\ todos' = todos \ found
            /\ resp' = Respond("delete_todo", JSONResponse(204, NoContent), extra)
    /\ UNCHANGED <<users, inflight, held, now>>

----------------------------------------------------------------------------
(* Two registered users, each holding the token of a login at time 0,     *)
(* work on their todos.  A client may also present a token whose user_id   *)
(* it rewrote.                                                             *)

SeedUser(id, username, email, role) ==
    [id |-> id, username |-> username, email |-> email,
     hashed_password |-> bcrypt_hash("secret1", "s1"),
     role |-> role, is_active |-> TRUE]

TokenOf(u, t) ==
    create_access_token([sub |-> u.username, user_id |-> u.id], NoDelta, t)

Forged(token, user_id) ==
    [token EXCEPT !.payload = [token.payload EXCEPT !.user_id = user_id]]

Presentable == held \cup {Forged(tok, id) : tok \in held, id \in UserIds}

TodoRequests ==
    {[title |-> "a", description |-> None, priority |-> 1, completed |-> FALSE],
     [title |-> "b", description |-> "d", priority |-> 5, completed |-> TRUE],
     [title |-> "", description |-> None, priority |-> 1, completed |-> FALSE],
     [title |-> "a", description |-> None, priority |-> 6, completed |-> FALSE]}

TodoIds == 0..MaxTodoId

InitTodos ==
    /\ users = {SeedUser(1, "u1", "e1", "user"), SeedUser(2, "u2", "e2", "user")}
    /\ todos = {}
    /\ inflight = [s \in Slots |-> Idle]
    /\ held = {TokenOf(u, 0) : u \in users}
    /\ now = 0
    /\ resp = NoResp

NextTodos ==
    \/ \E tok \in Presentable : ReadAll(tok)
    \/ \E tok \in Presentable, id \in TodoIds : ReadTodo(tok, id)
    \/ \E tok \in Presentable, req \in TodoRequests, id \in TodoIds \ {0} :
            CreateTodo(tok, req, id)
    \/ \E tok \in Presentable, id \in TodoIds, req \in TodoRequests :
            UpdateTodo(tok, id, req)
    \/ \E tok \in Presentable, id \in TodoIds : DeleteTodo(tok, id)

SpecTodos == InitTodos /\ [][NextTodos]_vars

(* Every response echoes its request: op, the principal's id as caller    *)
(* (0 when the token was refused), todo_id and req.                        *)

(* What the request just answered must have done when it came from a user *)
(* other than the owner of todo t: get, update and delete of t's id were   *)
(* answered with the given status and changed no row, and a list does not  *)
(* contain t.                                                              *)
InvisibleTo(t, updateStatus) ==
    /\ (resp'.op \in {"read_todo", "delete_todo"} /\ resp'.todo_id = t.id) =>
            resp'.status = 404 /\ todos' = todos
    /\ (resp'.op = "update_todo" /\ resp'.todo_id = t.id) =>
            resp'.status = updateStatus /\ todos' = todos
    /\ resp'.op = "read_all" =>
            resp'.status = 200 /\ t \notin resp'.content.items

OtherOwner(caller, t) ==
    /\ UserById(caller) # {} /\ UserById(t.owner_id) # {}
    /\ t.owner_id # caller

(* C4 as stated: for a todo owned by A and a distinct user B, B's get,    *)
(* update and delete of its id each fail with 404, the todo is unchanged   *)
(* and B's list never contains it.                                         *)
C4_OtherOwnerAlways404 ==
    [][\A t \in todos :
        OtherOwner(resp'.caller, t) => InvisibleTo(t, 404)
      ]_vars

(* C4 amended: B's get and delete fail with 404; B's update fails with    *)
(* 404 when its body passes the TodoRequest validation and with 422 when   *)
(* it does not (as it would for any id); none succeeds or answers 403, the *)
(* todo is unchanged and B's list never contains it.                       *)
C4_OtherOwnerNeverSees ==
    [][\A t \in todos :
        OtherOwner(resp'.caller, t) =>
            InvisibleTo(t, IF resp'.op = "update_todo"
                              /\ TodoRequestInvalidFields(resp'.req) # {}
                           THEN 422 ELSE 404)
      ]_vars

(* A valid update by a user who does not own the todo was answered 404. *)
C4_Witness ==
    /\ resp.op = "update_todo" /\ resp.status = 404
    /\ TodoRequestInvalidFields(resp.req) = {}
    /\ UserById(resp.caller) # {}
    /\ \E t \in todos : /\ t.id = resp.todo_id
                        /\ t.owner_id # resp.caller
                        /\ TodoFields(t) # resp.req

(* The answers to a get of the last request's todo_id by its caller, now. *)
GetAfter ==
    {read_todo(tok, resp.todo_id) :
        tok \in {k \in held : get_current_user(k, now).ok
                              /\ get_current_user(k, now).user.id = resp.caller}}

(* C5: for one owner, after a create that returned a todo, a get of the   *)
(* returned id returns the submitted title, description, priority and      *)
(* completed; after an update that returned, a get returns the updated     *)
(* fields; after a delete that returned, a get of that id fails with 404.  *)
C5_RoundTrip ==
    (resp.op \in {"create_todo", "update_todo", "delete_todo"}
        /\ UserById(resp.caller) # {}) =>
        /\ GetAfter # {}
        /\ (resp.op = "create_todo" /\ resp.status = 201) =>
              /\ resp.content.id = resp.todo_id
              /\ \A g \in GetAfter :
                    g.status = 200 /\ TodoFields(g.content) = resp.req
        /\ (resp.op = "update_todo" /\ resp.status = 200) =>
              \A g \in GetAfter :
                    g.status = 200 /\ TodoFields(g.content) = resp.req
        /\ (resp.op = "delete_todo" /\ resp.status = 204) =>
              \A g \in GetAfter : g.status = 404

(* An update changed a stored todo and the owner's get returns the new    *)
(* fields.                                                                 *)
C5_Witness ==
    /\ resp.op = "update_todo" /\ resp.status = 200
    /\ resp.req.completed /\ resp.req.description # None
    /\ \E tok \in held :
          /\ get_current_user(tok, now).user.id = resp.caller
          /\ TodoFields(read_todo(tok, resp.todo_id).content) = resp.req

----------------------------------------------------------------------------
(* Token lifetime: a client is handed a token, the clock advances, and    *)
(* the client presents the token to an authenticated route.                *)

(* A call of create_access_token; the client replaces its token. *)
IssueToken(data, expires_delta) ==
    /\ held' = {create_access_token(data, expires_delta, now)}
    /\ UNCHANGED <<users, todos, inflight, now, resp>>

(* The clock read by datetime.now and by jwt.decode moves on. *)
Tick ==
    /\ now < MaxTime
    /\ now' = now + 1
    /\ UNCHANGED <<users, todos, inflight, held, resp>>

IssueData == {[sub |-> "u1", user_id |-> 1], [sub |-> None, user_id |-> 1]}
Deltas == {NoDelta, <<-1>>, <<0>>, <<1>>}

NextToken ==
    \/ \E data \in IssueData, delta \in Deltas : IssueToken(data, delta)
    \/ Tick
    \/ \E tok \in held : ReadAll(tok)

SpecToken == InitReg /\ [][NextToken]_vars

WellFormed(tok) ==
    tok.sig = tok.payload /\ tok.payload.sub # None /\ tok.payload.user_id # 0

Rejected(tok) == ~get_current_user(tok, now).ok

(* What holds of every held token whatever the boundary: past its expiry  *)
(* it is refused with 401, once refused it stays refused, and a token      *)
(* issued with an expiry in the past is refused from the start.            *)
ExpiredStaysRejected ==
    /\ \A tok \in held :
          /\ (ReadAll(tok) /\ now > tok.payload.exp) => resp'.status = 401
          /\ (Rejected(tok) /\ tok \in held') => Rejected(tok)'
    /\ \A data \in IssueData, delta \in Deltas \ {NoDelta} :
          (IssueToken(data, delta) /\ delta[1] < 0) =>
              \A tok \in held' : Rejected(tok) /\ Rejected(tok)'

(* C10 as stated: an issued token is accepted only while the current time *)
(* is before its expiry; once the expiry has passed, or when it was issued *)
(* with an expiry in the past, it is refused with 401 on every later       *)
(* request.                                                                *)
C10_AcceptedOnlyBeforeExpiry ==
    [][/\ \A tok \in held :
            (ReadAll(tok) /\ resp'.status # 401) => now < tok.payload.exp
       /\ ExpiredStaysRejected
      ]_vars

(* C10 amended: an issued token that carries both claims is accepted      *)
(* exactly while the current time is not after its expiry (it is still     *)
(* accepted at the expiry instant itself); once the current time is after  *)
(* the expiry, or when it was issued with an expiry in the past, it is     *)
(* refused with 401 on every later request.                                *)
C10_AcceptedUntilExpiry ==
    [][/\ \A tok \in held :
            ReadAll(tok) =>
               /\ resp'.status \in {200, 401}
               /\ resp'.status = 200 <=>
                     (WellFormed(tok) /\ now <= tok.payload.exp)
       /\ ExpiredStaysRejected
      ]_vars

(* A token of the default lifetime was presented after its expiry and     *)
(* refused.                                                                *)
C10_Witness ==
    /\ resp.op = "read_all" /\ resp.status = 401
    /\ \E tok \in held :
          /\ WellFormed(tok)
          /\ tok.payload.exp >= ACCESS_TOKEN_EXPIRE_MINUTES
          /\ tok.payload.exp < now

----------------------------------------------------------------------------
(* The admin guard and the admin-only routes *)

get_admin_user_RoleNotChecked(token) ==
    LET cu == get_current_user(token, now) IN
    IF ~cu.ok THEN cu
    ELSE IF UserById(cu.user.id) = {}
    THEN [ok |-> FALSE, user |-> cu.user,
          exc |-> HTTPException(404, "User not found")]
    ELSE cu

(* The principal, or the HTTPException the guard raises. *)
get_admin_user(token) ==
    LET cu == get_current_user(token, now)
        found == UserById(cu.user.id)
    IN  IF ~cu.ok THEN cu
        ELSE IF found = {}
        THEN [ok |-> FALSE, user |-> cu.user,
              exc |-> HTTPException(404, "User not found")]
        ELSE IF (CHOOSE u \in found : TRUE).role # "admin"
        THEN [ok |-> FALSE, user |-> cu.user,
              exc |-> HTTPException(403, "Admin access required")]
        ELSE cu

(* A users row as UserResponse shows it. *)
UserData(u) ==
    [id |-> u.id, username |-> u.username, email |-> u.email,
     role |-> u.role, is_active |-> u.is_active]

(* UserResponse requires a message field.  Whether a users row has one is *)
(* decided by the table's declaration; when it has not, serialising the    *)
(* row fails and general_exception_handler answers.                        *)
SerializeUsers(rows, has_message, content) ==
    IF rows # {} /\ ~has_message THEN general_exception_handler
    ELSE JSONResponse(200, content)

(* GET /admin/users *)
ReadAllUsers(token, has_message) ==
    LET au == get_admin_user(token) IN
    /\ resp' = Respond("read_all_users",
                   IF ~au.ok THEN HandleException(au.exc)
                   ELSE SerializeUsers(users, has_message,
                            [items |-> {UserData(u) : u \in users}]),
                   [caller |-> au.user.id])
    /\ UNCHANGED <<users, todos, inflight, held, now>>

(* GET /admin/users/{user_id} *)
ReadUser(token, user_id, has_message) ==
    LET au == get_admin_user(token)
        found == UserById(user_id)
    IN
    /\ resp' = Respond("read_user",
                   IF ~au.ok THEN HandleException(au.exc)
                   ELSE IF user_id <= 0
                   THEN ValidationErrorResponse({"user_id"})
                   ELSE IF found = {}
                   THEN HandleException(HTTPException(404, "User not found"))
                   ELSE SerializeUsers(found, has_message,
                            UserData(CHOOSE u \in found : TRUE)),
                   [caller |-> au.user.id, user_id |-> user_id])
    /\ UNCHANGED <<users, todos, inflight, held, now>>

(* GET /admin/todos *)
ReadAllTodos(token) ==
    LET au == get_admin_user(token) IN
    /\ resp' = Respond("read_all_todos",
                   IF ~au.ok THEN HandleException(au.exc)
                   ELSE JSONResponse(200, [items |-> todos]),
                   [caller |-> au.user.id])
    /\ UNCHANGED <<users, todos, inflight, held, now>>

----------------------------------------------------------------------------
(* Three registered users (an admin, a user and one registered with       *)
(* another role), each holding the token of a login at time 0, and a todo  *)
(* of the second.                                                          *)

AdminUserIds == 0..3

InitAdmin ==
    /\ users = {SeedUser(1, "u1", "e1", "admin"), SeedUser(2, "u2", "e2", "user"),
                SeedUser(3, "u3", "e3", "guest")}
    /\ todos = {NewTodo([title |-> "a", description |-> None, priority |-> 1,
                         completed |-> FALSE], 1, 2)}
    /\ inflight = [s \in Slots |-> Idle]
    /\ held = {TokenOf(u, 0) : u \in users}
    /\ now = 0
    /\ resp = NoResp

NextAdmin ==
    \/ \E tok \in Presentable, m \in BOOLEAN : ReadAllUsers(tok, m)
    \/ \E tok \in Presentable, id \in AdminUserIds, m \in BOOLEAN :
            ReadUser(tok, id, m)
    \/ \E tok \in Presentable : ReadAllTodos(tok)
    \/ \E id \in AdminUserIds : DeleteUserRow(id)

SpecAdmin == InitAdmin /\ [][NextAdmin]_vars

IsErrorEnvelope(content) ==
    /\ DOMAIN content = {"error", "message", "error_code", "status_code"}
    /\ content.error

(* What the guard demands of the response to a principal: 404 and an      *)
(* error envelope when no users row has its id, 403 and an error envelope  *)
(* when the row's role is not "admin".                                     *)
Guarded(caller) ==
    IF UserById(caller) = {}
    THEN resp'.status = 404 /\ IsErrorEnvelope(resp'.content)
    ELSE \A u \in UserById(caller) :
            u.role # "admin" =>
                resp'.status = 403 /\ IsErrorEnvelope(resp'.content)

(* C8: each admin-only route returns data only when, at the time of the   *)
(* request, the principal's users row exists and has role "admin"; it      *)
(* fails with 404 when no row has the principal's id and with 403 when the *)
(* row's role is not "admin", and in neither case returns user or todo     *)
(* data.                                                                   *)
C8_AdminOnly ==
    [][/\ \A tok \in Presentable :
            LET cu == get_current_user(tok, now) IN
            cu.ok =>
              /\ \A m \in BOOLEAN : ReadAllUsers(tok, m) => Guarded(cu.user.id)
              /\ \A m \in BOOLEAN, id \in AdminUserIds :
                    ReadUser(tok, id, m) => Guarded(cu.user.id)
              /\ ReadAllTodos(tok) => Guarded(cu.user.id)
       /\ (resp' # resp /\ ~IsErrorEnvelope(resp'.content)) =>
              /\ resp'.status \in {200, 422}
              /\ \E u \in UserById(resp'.caller) : u.role = "admin"
      ]_vars

(* A principal whose users row is gone was answered 404 by /admin/todos   *)
(* while the admin's row and a todo are stored.                            *)
C8_Witness ==
    /\ resp.op = "read_all_todos" /\ resp.status = 404
    /\ resp.caller # 0 /\ UserById(resp.caller) = {}
    /\ \E u \in users : u.role = "admin"
    /\ todos # {}

----------------------------------------------------------------------------
(* POST /auth/register, from the body the client sends.  A body is the   *)
(* record of the fields of CreateUserRequest; a field the client left out  *)
(* holds Missing.  The framework checks the body against the request model *)
(* before create_user runs; no field has a constraint beyond being a       *)
(* string that is present.                                                 *)

Missing == "<missing>"

CreateUserRequestFields == {"username", "email", "password", "role"}

CreateUserRequestMissingFields(body) ==
    {f \in CreateUserRequestFields : body[f] = Missing}

Register(s, body) ==
    IF CreateUserRequestMissingFields(body) # {}
    THEN /\ inflight[s] = Idle
         /\ resp' = Respond("register",
                ValidationErrorResponse(CreateUserRequestMissingFields(body)),
                [slot |-> s, req |-> body, cause |-> <<>>])
         /\ UNCHANGED <<users, todos, inflight, held, now>>
    ELSE RegisterCheckUsername(s, body)

RegBodies ==
    [username : {"u1", Missing}, email : {"e1", "e2", Missing},
     password : {"secret1"}, role : {"user", "admin", "guest", Missing}]

NextRegBody ==
    \/ \E s \in Slots, body \in RegBodies : Register(s, body)
    \/ \E s \in Slots : RegisterCheckEmail(s)
    \/ \E s \in Slots, failure \in {<<>>} \cup DbFailures :
            RegisterCommit(s, "s1", failure)

SpecRegBody == InitReg /\ [][NextRegBody]_vars

(* C11: a register request that omits a required field is answered with   *)
(* status 422, error_code REQUIRED_FIELD_MISSING and a context whose field *)
(* entry names a missing field, and no user is stored from it.             *)
C11_MissingFieldEnvelope ==
    (resp.op = "register" /\ CreateUserRequestMissingFields(resp.req) # {}) =>
        /\ resp.status = 422
        /\ "error_code" \in DOMAIN resp.content
        /\ resp.content.error_code = "REQUIRED_FIELD_MISSING"
        /\ "context" \in DOMAIN resp.content
        /\ \E f \in CreateUserRequestMissingFields(resp.req) :
                <<"field", f>> \in resp.content.context
        /\ \A u \in users : Missing \notin {u.username, u.email, u.role}

(* C12: a failure of the insert or commit of register that is neither a   *)
(* domain exception nor a constraint violation is answered with status 500 *)
(* and a message that contains none of the failure's own text.             *)
C12_UnexpectedFailureWithheld ==
    (resp.op = "register" /\ resp.cause \in DbFailures) =>
        /\ resp.status = 500
        /\ ~IsInfix(resp.cause[1], resp.content.message)

(* C13: in every state reachable by register requests, the role of every  *)
(* stored user is "user" or "admin".                                       *)
C13_RoleEnum ==
    \A u \in users : u.role \in {"user", "admin"}

----------------------------------------------------------------------------
(* integrity_error_handler on the messages an engine may hand it.  A       *)
(* message is a row of at most MaxMsgLen atoms, drawn when the error is    *)
(* raised.  When the handler raises, the framework answers through the    *)
(* handler registered for Exception.                                       *)

MaxMsgLen == 4

MsgNames == {"users", "username", "email"}

MsgAtoms == {UNIQUE_FAILED, NOT_NULL_FAILED, "."} \cup MsgNames

RECURSIVE MsgsOfLen(_)
MsgsOfLen(n) ==
    IF n = 0 THEN {<<>>}
    ELSE {Append(m, a) : m \in MsgsOfLen(n - 1), a \in MsgAtoms}

IntegrityMessages == UNION {MsgsOfLen(n) : n \in 0..MaxMsgLen}

NotNullMsg(table, column) == <<NOT_NULL_FAILED, table, ".", column>>

(* An IntegrityError with message orig has left a route and waits for    *)
(* its handler; resp holds it until the response replaces it.              *)
RaisedIntegrityError(orig) == [op |-> "raised", status |-> 0, cause |-> orig]

MapIntegrityError(orig) ==
    /\ resp = RaisedIntegrityError(orig)
    /\ LET r == integrity_error_handler(orig) IN
       resp' = IF "raised" \in DOMAIN r
               THEN Respond("integrity_error", general_exception_handler,
                            [cause |-> orig, raised |-> r.raised])
               ELSE Respond("integrity_error", r,
                            [cause |-> orig, raised |-> ""])
    /\ UNCHANGED <<users, todos, inflight, held, now>>

InitMapper ==
    /\ users = {}
    /\ todos = {}
    /\ inflight = [s \in Slots |-> Idle]
    /\ held = {}
    /\ now = 0
    /\ \E orig \in IntegrityMessages : resp = RaisedIntegrityError(orig)

NextMapper == \E orig \in IntegrityMessages : MapIntegrityError(orig)

SpecMapper == InitMapper /\ [][NextMapper]_vars

(* The rule of the translation table a message falls under: the first     *)
(* that matches, in the table's order.                                     *)
FirstMatchingRule(orig) ==
    IF IsInfix(UniqueMsg("users", "username"), orig)
    THEN <<409, "USERNAME_ALREADY_EXISTS">>
    ELSE IF IsInfix(UniqueMsg("users", "email"), orig)
    THEN <<409, "EMAIL_ALREADY_EXISTS">>
    ELSE IF IsInfix(<<UNIQUE_FAILED>>, orig)
    THEN <<409, "DUPLICATE_RECORD">>
    ELSE IF IsInfix(<<NOT_NULL_FAILED>>, orig)
    THEN <<422, "REQUIRED_FIELD_MISSING">>
    ELSE <<400, "CONSTRAINT_VIOLATION">>

----------------------------------------------------------------------------
(* C15: across any sequence of todo operations a todo keeps its id and    *)
(* its owner_id; an update by the owner replaces only title, description,  *)
(* priority and completed of the targeted todo, a delete removes only the  *)
(* targeted todo, an update or delete that fails changes no todo, and no   *)
(* step changes a users row.                                               *)
C15_FrameOfUpdateAndDelete ==
    [][/\ users' = users
       /\ \A t \in todos, t2 \in todos' :
              t2.id = t.id => t2.owner_id = t.owner_id
       /\ resp'.op \in {"update_todo", "delete_todo"} =>
            LET target == {t \in todos : /\ t.id = resp'.todo_id
                                         /\ t.owner_id = resp'.caller}
                others == {t \in todos : t.id # resp'.todo_id}
            IN  IF resp'.op = "update_todo" /\ resp'.status = 200
                THEN /\ Cardinality(target) = 1
                     /\ {t \in todos' : t.id # resp'.todo_id} = others
                     /\ Cardinality(todos') = Cardinality(todos)
                     /\ \E t \in target, t2 \in todos' :
                            /\ t2.id = t.id /\ t2.owner_id = t.owner_id
                            /\ TodoFields(t2) = resp'.req
                ELSE IF resp'.op = "delete_todo" /\ resp'.status = 204
                THEN /\ Cardinality(target) = 1
                     /\ todos' = todos \ target
                ELSE todos' = todos
      ]_vars

(* The owner's update was just applied to its todo while a todo of        *)
(* another owner is stored.                                                *)
C15_Witness ==
    /\ resp.op = "update_todo" /\ resp.status = 200
    /\ \E t \in todos : /\ t.id = resp.todo_id /\ t.owner_id = resp.caller
                        /\ TodoFields(t) = resp.req
    /\ \E o \in todos : o.owner_id # resp.caller /\ TodoFields(o) # resp.req

====
